---------------------------- MODULE Spec2Model ----------------------------
(***************************************************************************)
(* Model of the microgrid relay-control core of radheradhe_backend:        *)
(* the multi-mode decision policy and the load balancer                    *)
(* (services/optimization_service.py), the command dispatcher              *)
(* (services/firebase_service.py) and the reliability watchdog             *)
(* (services/watchdog_service.py).                                         *)
(*                                                                         *)
(* Units: powers are whole watts, battery percentages whole percent,       *)
(* battery voltages tenths of a volt (12.6 V is 126), time whole seconds.   *)
(* The code compares floats; every comparison is                           *)
(* modelled by the equivalent comparison of integers (a > 0.9 * b becomes  *)
(* 10 * a > 9 * b), which is exact for the whole-number inputs the model   *)
(* draws.                                                                  *)
(***************************************************************************)
EXTENDS Integers, Sequences, FiniteSets, TLC

VARIABLES
    sensor_data,        \* the snapshot handed to optimize_energy_allocation
    pc,                 \* position of the optimize cycle
    reasoning,          \* optimization_data["reasoning"]
    mode_decisions,     \* decisions of the selected mode, before balancing
    decisions,          \* the decision set after load balancing
    todo,               \* zones of decisions.items() not yet dispatched
    execution_results,  \* results of _execute_decisions, per zone
    sent,               \* history: the (zone, command) dispatches begun
    commands,           \* the store's commands/ documents, per zone
    now,                \* time.time(), in seconds
    wpc,                \* position of the watchdog loop within its tick
    failed_commands,    \* WatchdogService.failed_commands (the retry queue)
    connection_failures,\* WatchdogService.connection_failures
    observed_at,        \* the "timestamp" of the zones' sensors/ entries
    fetched,            \* history: the fetches of the connectivity check, when followed
    ran,                \* history: the checks the current tick has run
    alerts,             \* the send_emergency_alert calls of the current tick
    jobs,               \* schedule.jobs: the jobs of the default scheduler
    threads,            \* the scheduler threads, each idle or inside a job
    last_optimization,  \* BackgroundMonitor.last_optimization
    manual,             \* the caller-requested optimizations, each with its progress
    completed,          \* history: when the last automatic optimization ended
    watchdog_running,   \* WatchdogService.running
    monitor_running,    \* BackgroundMonitor.running
    request,            \* the request or task the optimize cycle serves
    cycles,             \* the optimize cycles under way at the same time
    returned            \* history: the calls of a function with their values

optVars == <<sensor_data, pc, reasoning, mode_decisions, decisions, todo,
             execution_results, sent>>
wdVars == <<now, wpc, failed_commands, connection_failures, observed_at, fetched,
           ran, alerts>>
bgVars == <<jobs, threads, last_optimization, manual, completed>>
reqVars == <<watchdog_running, monitor_running, request, cycles, returned>>
vars == <<optVars, commands, wdVars, bgVars, reqVars>>

---------------------------------------------------------------------------
(* Bounds of the model *)

\* powers are drawn from {0, 10, ..., 10 * MaxPowerLevel}
MaxPowerLevel == 2

\* the watchdog loop is followed for MaxTicks iterations
MaxTicks == 44

\* time.time() when the watchdog starts
StartTime == 1000

\* the scheduler is followed for MaxSchedulerSeconds after its start
MaxSchedulerSeconds == 602

\* an optimization takes up to MaxRunSeconds
MaxRunSeconds == 1

\* the caller-requested optimizations that are followed
MaxManual == 1

\* _calculate_efficiency is applied to powers of 0..MaxEfficiencyPower watts
MaxEfficiencyPower == 3

\* the retry dispatches of the watchdog that are recorded
MaxRecordedRetries == 4

\* the invocations of the decision engine on one snapshot that are compared
MaxInvocations == 2

\* the optimize cycles that run at the same time
MaxCycles == 2

\* the rate limiter is applied up to MaxElapsedPeriods scheduler periods
\* after the last recorded optimization
MaxElapsedPeriods == 289

---------------------------------------------------------------------------
(* config.py: zone registry and battery thresholds *)

Zones == {"Zone1", "Zone2", "Zone3", "Zone4"}

ZoneType(zone) ==
    CASE zone = "Zone1" -> "critical"
      [] zone = "Zone2" -> "semi-critical"
      [] zone = "Zone3" -> "non-critical"
      [] zone = "Zone4" -> "deferrable"

Priority(zone) ==
    CASE zone = "Zone1" -> 1
      [] zone = "Zone2" -> 2
      [] zone = "Zone3" -> 3
      [] zone = "Zone4" -> 4

CRITICAL_BATTERY_THRESHOLD == 10
LOW_BATTERY_THRESHOLD == 20
EMERGENCY_BATTERY_THRESHOLD == 5

\* sorted(self.zones.items(), key=priority): the registry zones, highest
\* priority (smallest number) first
sorted_zones == <<"Zone1", "Zone2", "Zone3", "Zone4">>

---------------------------------------------------------------------------
(* Snapshots: snapshot maps the zones it holds to their metrics.  A     *)
(* zone entry that is not a dict (isDict = FALSE) makes zone.get raise.    *)

Powers == {10 * k : k \in 0..MaxPowerLevel}

\* zone_data.get(key, default) for a zone the snapshot does not hold
DefaultZoneData ==
    [isDict |-> TRUE, inputPower |-> 0, outputPower |-> 0,
     batteryPercentage |-> 50, batteryVoltage |-> 120]

\* snapshot.get(zone, {}) followed by .get(key, default)
ZoneData(snapshot, zone) ==
    IF zone \in DOMAIN snapshot THEN snapshot[zone] ELSE DefaultZoneData

RECURSIVE SumOver(_, _, _)
\* sum(f[z] for z in S)
SumOver(f, S, key) ==
    IF S = {} THEN 0
    ELSE LET z == CHOOSE x \in S : TRUE
         IN  f[z][key] + SumOver(f, S \ {z}, key)

\* sum(zone.get("inputPower", 0) for zone in snapshot.values())
TotalInput(snapshot) == SumOver(snapshot, DOMAIN snapshot, "inputPower")

\* sum(zone.get("outputPower", 0) for zone in snapshot.values())
TotalOutput(snapshot) == SumOver(snapshot, DOMAIN snapshot, "outputPower")

\* sum of batteryPercentage; avg_battery is this sum over len(snapshot)
BatterySum(snapshot) ==
    SumOver(snapshot, DOMAIN snapshot, "batteryPercentage")

\* avg_battery < threshold, for a non-empty snapshot
AvgBatteryBelow(snapshot, threshold) ==
    BatterySum(snapshot) < threshold * Cardinality(DOMAIN snapshot)

\* the computation that raises only for a zone entry that is not a dict
SystemStateRaisesMalformedOnly(snapshot) ==
    \E z \in DOMAIN snapshot : ~snapshot[z].isDict

\* the computation of the system state raises: an empty snapshot divides
\* by zero, a zone entry that is not a dict has no .get
SystemStateRaises(snapshot) ==
    \/ DOMAIN snapshot = {}
    \/ \E z \in DOMAIN snapshot : ~snapshot[z].isDict

---------------------------------------------------------------------------
(* services/ml_service.py: predict_battery_sustain (models not trained)    *)

\* next(iter(snapshot.values())): the first zone of the snapshot
SampleZone(snapshot) ==
    CHOOSE z \in DOMAIN snapshot :
        \A y \in DOMAIN snapshot : Priority(z) <= Priority(y)

\* round(x, 2) of the quotient num / den (den > 0), in hundredths
RoundCenti(num, den) == (200 * num + den) \div (2 * den)

\* sustain hours as [inf, centi]: float("inf"), or hundredths of an hour.
\* hours = ((V - 10.5) / 2.1 * 100 * 0.8) / net = 80 * (V10 - 105) / (21 * net)
predict_battery_sustain(current_data) ==
    LET net == current_data.outputPower - current_data.inputPower
        h   == RoundCenti(80 * (current_data.batteryVoltage - 105), 21 * net)
    IN  IF current_data.outputPower <= 0 \/ net <= 0
        THEN [inf |-> TRUE, centi |-> 0]
        ELSE [inf |-> FALSE, centi |-> IF h > 0 THEN h ELSE 0]

\* sustain_hours > hours
SustainAbove(sustain_hours, hours) ==
    sustain_hours.inf \/ sustain_hours.centi > 100 * hours

---------------------------------------------------------------------------
(* services/optimization_service.py: the decision engine *)

\* _calculate_efficiency as the fraction EffNum / EffDen:
\* 0.7 * min(out / in, 1) + 0.3 * min(V / 12.6, 1), and 0 when in <= 0
Min(a, b) == IF a <= b THEN a ELSE b

\* the numerator without the caps of the two factors at 1.0
EffNumUncapped(zone_data) ==
    IF zone_data.inputPower <= 0 THEN 0
    ELSE 7 * 126 * zone_data.outputPower
         + 3 * zone_data.inputPower * zone_data.batteryVoltage

EffNum(zone_data) ==
    IF zone_data.inputPower <= 0 THEN 0
    ELSE 7 * 126 * Min(zone_data.outputPower, zone_data.inputPower)
         + 3 * zone_data.inputPower * Min(zone_data.batteryVoltage, 126)

EffDen(zone_data) ==
    IF zone_data.inputPower <= 0 THEN 1 ELSE 1260 * zone_data.inputPower

\* efficiency > tenths / 10
calculate_efficiency_above(zone_data, tenths) ==
    10 * EffNum(zone_data) > tenths * EffDen(zone_data)

\* emergency mode that also keeps the semi-critical tier ON
emergency_mode_semi_on(snapshot) ==
    [zone \in Zones |->
        IF ZoneType(zone) \in {"critical", "semi-critical"} THEN "ON" ELSE "OFF"]

\* _emergency_mode: only critical zones ON
emergency_mode(snapshot) ==
    [zone \in Zones |->
        IF ZoneType(zone) = "critical" THEN "ON" ELSE "OFF"]

\* _critical_mode: critical and semi-critical zones ON when inputPower > 10
critical_mode(snapshot) ==
    [zone \in Zones |->
        IF ZoneType(zone) \in {"critical", "semi-critical"}
        THEN IF ZoneData(snapshot, zone).inputPower > 10 THEN "ON" ELSE "OFF"
        ELSE "OFF"]

\* _conservation_mode
conservation_mode(snapshot) ==
    [zone \in Zones |->
        IF ZoneType(zone) = "critical" THEN "ON"
        ELSE IF /\ ZoneType(zone) = "semi-critical"
                /\ calculate_efficiency_above(ZoneData(snapshot, zone), 7)
             THEN "ON"
        ELSE IF /\ ZoneType(zone) = "non-critical"
                /\ calculate_efficiency_above(ZoneData(snapshot, zone), 8)
             THEN "ON"
        ELSE "OFF"]

\* _normal_mode
normal_mode(snapshot, sustain_hours) ==
    [zone \in Zones |->
        LET zone_data == ZoneData(snapshot, zone)
        IN  CASE ZoneType(zone) = "critical" -> "ON"
              [] ZoneType(zone) = "semi-critical" ->
                    IF calculate_efficiency_above(zone_data, 6) THEN "ON" ELSE "OFF"
              [] ZoneType(zone) = "non-critical" ->
                    IF /\ calculate_efficiency_above(zone_data, 7)
                       /\ SustainAbove(sustain_hours, 4)
                    THEN "ON" ELSE "OFF"
              [] ZoneType(zone) = "deferrable" ->
                    IF /\ calculate_efficiency_above(zone_data, 8)
                       /\ SustainAbove(sustain_hours, 8)
                    THEN "ON" ELSE "OFF"]

\* the ladder with the EMERGENCY threshold taken inclusively
SelectModeInclusive(snapshot) ==
    IF BatterySum(snapshot) <= EMERGENCY_BATTERY_THRESHOLD * Cardinality(DOMAIN snapshot)
    THEN "emergency"
    ELSE IF AvgBatteryBelow(snapshot, CRITICAL_BATTERY_THRESHOLD) THEN "critical"
    ELSE IF AvgBatteryBelow(snapshot, LOW_BATTERY_THRESHOLD) THEN "conservation"
    ELSE "normal"

\* the ladder with its rungs tested from the highest threshold down
SelectModeHighestFirst(snapshot) ==
    IF AvgBatteryBelow(snapshot, LOW_BATTERY_THRESHOLD) THEN "conservation"
    ELSE IF AvgBatteryBelow(snapshot, CRITICAL_BATTERY_THRESHOLD) THEN "critical"
    ELSE IF AvgBatteryBelow(snapshot, EMERGENCY_BATTERY_THRESHOLD) THEN "emergency"
    ELSE "normal"

\* the threshold ladder of optimize_energy_allocation (first match wins)
SelectMode(snapshot) ==
    IF AvgBatteryBelow(snapshot, EMERGENCY_BATTERY_THRESHOLD) THEN "emergency"
    ELSE IF AvgBatteryBelow(snapshot, CRITICAL_BATTERY_THRESHOLD) THEN "critical"
    ELSE IF AvgBatteryBelow(snapshot, LOW_BATTERY_THRESHOLD) THEN "conservation"
    ELSE "normal"

\* the line appended to optimization_data["reasoning"] for the mode
ModeReason(m) ==
    CASE m = "emergency" -> "Emergency mode: Critical battery level"
      [] m = "critical" -> "Critical mode: Low battery"
      [] m = "conservation" -> "Conservation mode: Battery below threshold"
      [] m = "normal" -> "Normal mode: Sufficient battery"

\* the decisions of the selected mode, before load balancing
ModeDecisions(snapshot) ==
    LET m == SelectMode(snapshot)
    IN  CASE m = "emergency" -> emergency_mode(snapshot)
          [] m = "critical" -> critical_mode(snapshot)
          [] m = "conservation" -> conservation_mode(snapshot)
          [] m = "normal" ->
                normal_mode(snapshot,
                    predict_battery_sustain(snapshot[SampleZone(snapshot)]))

---------------------------------------------------------------------------
(* services/optimization_service.py: the load balancer *)

\* total_projected_load: outputPower of the zones decided ON
RECURSIVE ProjectedLoad(_, _, _)
ProjectedLoad(decided, snapshot, S) ==
    IF S = {} THEN 0
    ELSE LET z == CHOOSE x \in S : TRUE
         IN  (IF decided[z] = "ON" THEN ZoneData(snapshot, z).outputPower ELSE 0)
             + ProjectedLoad(decided, snapshot, S \ {z})

\* load <= total_available * 0.9
WithinMargin(load, total_available) == 10 * load <= 9 * total_available

\* the shedding loop of _apply_load_balancing from position i of
\* sorted_zones on, with current_load accumulated so far
RECURSIVE ShedFrom(_, _, _, _, _)
ShedFrom(decided, snapshot, total_available, i, current_load) ==
    IF i > Len(sorted_zones) THEN decided
    ELSE LET zone_name == sorted_zones[i]
             zone_load == ZoneData(snapshot, zone_name).outputPower
         IN  IF decided[zone_name] # "ON"
             THEN ShedFrom(decided, snapshot, total_available, i + 1, current_load)
             ELSE IF WithinMargin(current_load + zone_load, total_available)
             THEN ShedFrom(decided, snapshot, total_available, i + 1,
                           current_load + zone_load)
             ELSE ShedFrom([decided EXCEPT ![zone_name] = "OFF"], snapshot,
                           total_available, i + 1, current_load)

\* the condition under which shedding triggers
SheddingTriggers(decided, snapshot) ==
    ~WithinMargin(ProjectedLoad(decided, snapshot, DOMAIN decided),
                  TotalInput(snapshot))

\* the shedding loop without the update of current_load
RECURSIVE ShedFromNoUpdate(_, _, _, _)
ShedFromNoUpdate(decided, snapshot, total_available, i) ==
    IF i > Len(sorted_zones) THEN decided
    ELSE LET zone_name == sorted_zones[i]
             zone_load == ZoneData(snapshot, zone_name).outputPower
         IN  IF decided[zone_name] = "ON" /\ ~WithinMargin(zone_load, total_available)
             THEN ShedFromNoUpdate([decided EXCEPT ![zone_name] = "OFF"], snapshot,
                                   total_available, i + 1)
             ELSE ShedFromNoUpdate(decided, snapshot, total_available, i + 1)

\* load balancing that never adds a kept zone's load to current_load
apply_load_balancing_no_update(decided, snapshot) ==
    IF SheddingTriggers(decided, snapshot)
    THEN ShedFromNoUpdate(decided, snapshot, TotalInput(snapshot), 1)
    ELSE decided

\* load balancing that switches every zone ON when the load leaves room
apply_load_balancing_filling(decided, snapshot) ==
    IF SheddingTriggers(decided, snapshot)
    THEN ShedFrom(decided, snapshot, TotalInput(snapshot), 1, 0)
    ELSE [z \in DOMAIN decided |-> "ON"]

\* _apply_load_balancing
apply_load_balancing(decided, snapshot) ==
    IF SheddingTriggers(decided, snapshot)
    THEN ShedFrom(decided, snapshot, TotalInput(snapshot), 1, 0)
    ELSE decided

\* the decision set of a cycle that skips the load balancer
CycleDecisionsUnbalanced(snapshot) == ModeDecisions(snapshot)

\* the decision set of one optimize cycle: mode policy, then load balancing
CycleDecisions(snapshot) ==
    apply_load_balancing(ModeDecisions(snapshot), snapshot)

---------------------------------------------------------------------------
(* Inputs of the decision engine *)

ZoneMetrics(battery) ==
    [isDict : {TRUE}, inputPower : Powers, outputPower : Powers,
     batteryPercentage : {battery}, batteryVoltage : {120}]

\* average battery levels on and next to every threshold of the ladder
BatteryLevels == {4, 5, 9, 10, 19, 20}

\* snapshots holding every registry zone, all zones at one battery level
UniformSnapshots ==
    UNION { [Zones -> ZoneMetrics(b)] : b \in BatteryLevels }

\* snapshots whose zones differ in battery level: the averages are
\* 19/4 (below EMERGENCY), 20/4 (exactly EMERGENCY) and 21/4
MixedSnapshots ==
    { [z \in Zones |-> [s[z] EXCEPT !.batteryPercentage =
                            IF z = "Zone1" THEN b ELSE 6]] :
        s \in [Zones -> ZoneMetrics(6)], b \in {1, 2, 3} }

\* snapshots that hold no entry for Zone4
PartialSnapshots ==
    UNION { [Zones \ {"Zone4"} -> ZoneMetrics(b)] : b \in {4, 20} }

\* snapshots in which the entry of one zone is not a dict
MalformedSnapshots ==
    { [s EXCEPT ![z].isDict = FALSE] :
        s \in [Zones -> [isDict : {TRUE}, inputPower : {10}, outputPower : Powers,
                         batteryPercentage : {20}, batteryVoltage : {120}]],
        z \in {"Zone1", "Zone3"} }

PolicySnapshots ==
    UniformSnapshots \cup MixedSnapshots \cup PartialSnapshots \cup MalformedSnapshots

NoDecisions == <<>>

---------------------------------------------------------------------------
(* optimize_energy_allocation, step 1: lines 23-69, the decision set *)

OptimizeDecide ==
    /\ pc = "called"
    /\ IF SystemStateRaises(sensor_data)
       THEN /\ pc' = "failed"
            /\ UNCHANGED <<reqVars, reasoning, mode_decisions, decisions, todo>>
       ELSE /\ reasoning' = <<ModeReason(SelectMode(sensor_data)),
                              "Applied load balancing">>
            /\ mode_decisions' = ModeDecisions(sensor_data)
            /\ decisions' = CycleDecisions(sensor_data)
            /\ todo' = sorted_zones
            /\ pc' = "dispatch"
    /\ UNCHANGED <<reqVars, sensor_data, execution_results, sent, commands, wdVars, bgVars>>

\* WatchdogService.__init__, with the loop not started
\* BackgroundMonitor.__init__, and no job scheduled
\* no request under way, no call recorded
NoRequest ==
    /\ request = "none"
    /\ cycles = <<>>
    /\ returned = <<>>

BackgroundNotStarted ==
    /\ monitor_running = FALSE
    /\ jobs = <<>>
    /\ threads = <<>>
    /\ last_optimization = <<>>
    /\ manual = <<>>
    /\ completed = <<>>

WatchdogStopped ==
    /\ watchdog_running = FALSE
    /\ now = 0
    /\ wpc = "stopped"
    /\ failed_commands = <<>>
    /\ connection_failures = 0
    /\ observed_at = <<>>
    /\ fetched = <<>>
    /\ ran = <<>>
    /\ alerts = <<>>
    /\ BackgroundNotStarted

\* the decision engine applied to one snapshot
InitPolicy ==
    /\ sensor_data \in PolicySnapshots
    /\ pc = "called"
    /\ reasoning = <<>>
    /\ mode_decisions = NoDecisions
    /\ decisions = NoDecisions
    /\ todo = <<>>
    /\ execution_results = <<>>
    /\ sent = <<>>
    /\ commands = <<>>
    /\ WatchdogStopped
    /\ NoRequest

SpecPolicy == InitPolicy /\ [][OptimizeDecide]_vars

---------------------------------------------------------------------------
(* Properties of the decision engine *)

CriticalZones == {z \in Zones : ZoneType(z) = "critical"}

\* the optimize cycle has produced its decision set
Decided == pc \in {"dispatch", "returning", "done"}

\* C1: the decision set of an optimize cycle (mode policy, then load
\* balancing) assigns ON to every critical-tier zone
C1_CriticalAlwaysOn ==
    Decided => \A z \in CriticalZones : decisions[z] = "ON"

\* the average battery percentage of the cycle's snapshot is below EMERGENCY
InEmergency ==
    BatterySum(sensor_data)
        < EMERGENCY_BATTERY_THRESHOLD * Cardinality(DOMAIN sensor_data)

\* C4: below the EMERGENCY threshold the mode policy selects Emergency mode
\* and maps every critical zone to ON and every other zone to OFF
C4_EmergencyMode ==
    (Decided /\ InEmergency) =>
        /\ reasoning[1] = "Emergency mode: Critical battery level"
        /\ \A z \in Zones :
              mode_decisions[z] = IF z \in CriticalZones THEN "ON" ELSE "OFF"

\* C4 witness: Emergency mode decided for a snapshot in which a semi-critical
\* zone generates more than the Critical-mode minimum and a non-critical zone
\* is fully efficient
C4_Witness ==
    /\ Decided /\ InEmergency
    /\ sensor_data["Zone2"].inputPower > 10
    /\ sensor_data["Zone3"].inputPower > 0
    /\ sensor_data["Zone3"].outputPower >= sensor_data["Zone3"].inputPower

\* the average battery percentage of the cycle's snapshot is exactly 5
AvgBatteryIsFive ==
    BatterySum(sensor_data) = 5 * Cardinality(DOMAIN sensor_data)

\* C5 as stated: an average battery percentage of exactly 5 engages
\* Emergency mode
C5_FiveIsEmergency ==
    (Decided /\ AvgBatteryIsFive) =>
        reasoning[1] = "Emergency mode: Critical battery level"

\* C5 amended: an average battery percentage of exactly 5 engages Critical
\* mode (the EMERGENCY threshold is exclusive), whose decisions turn critical
\* and semi-critical zones ON only above 10 W of input power
C5_FiveIsCritical ==
    (Decided /\ AvgBatteryIsFive) =>
        /\ reasoning[1] = "Critical mode: Low battery"
        /\ \A z \in Zones :
              mode_decisions[z] = "ON" <=>
                  /\ ZoneType(z) \in {"critical", "semi-critical"}
                  /\ sensor_data[z].inputPower > 10

\* C5 witness: a decided cycle whose zones differ in battery percentage and
\* average exactly 5
C5_Witness ==
    /\ Decided /\ AvgBatteryIsFive
    /\ sensor_data["Zone1"].batteryPercentage # sensor_data["Zone2"].batteryPercentage

---------------------------------------------------------------------------
(* The load balancer applied to a given decision set *)

\* snapshots for the balancer: every output power, and input powers that
\* put the 90% margin between the loads of the zones
BalanceSnapshots ==
    { [z \in Zones |->
          [isDict |-> TRUE, inputPower |-> ip[z], outputPower |-> op[z],
           batteryPercentage |-> 50, batteryVoltage |-> 120]] :
        ip \in { f \in [Zones -> Powers] : f["Zone3"] <= 10 /\ f["Zone4"] <= 10 },
        op \in [Zones -> Powers] }

\* _apply_load_balancing(decisions, sensor_data), as test_load_balancing
\* calls it
Balance ==
    /\ pc = "balancing"
    /\ decisions' = apply_load_balancing(mode_decisions, sensor_data)
    /\ pc' = "balanced"
    /\ UNCHANGED <<reqVars, sensor_data, reasoning, mode_decisions, todo, execution_results,
                   sent, commands, wdVars, bgVars>>

InitBalance ==
    /\ sensor_data \in BalanceSnapshots
    /\ mode_decisions \in [Zones -> {"ON", "OFF"}]
    /\ pc = "balancing"
    /\ reasoning = <<>>
    /\ decisions = NoDecisions
    /\ todo = <<>>
    /\ execution_results = <<>>
    /\ sent = <<>>
    /\ commands = <<>>
    /\ WatchdogStopped
    /\ NoRequest

SpecBalance == InitBalance /\ [][Balance]_vars

---------------------------------------------------------------------------
(* Properties of the load balancer *)

RECURSIVE OnLoad(_, _)
\* summed outputPower of the zones of S that d decides ON
OnLoad(d, S) ==
    IF S = {} THEN 0
    ELSE LET z == CHOOSE x \in S : TRUE
         IN  (IF d[z] = "ON" THEN sensor_data[z].outputPower ELSE 0)
             + OnLoad(d, S \ {z})

RECURSIVE InputOf(_)
\* summed inputPower of the zones of S
InputOf(S) ==
    IF S = {} THEN 0
    ELSE LET z == CHOOSE x \in S : TRUE
         IN  sensor_data[z].inputPower + InputOf(S \ {z})

\* the ON zones of the given decision set draw more than 0.9 times the input
Overloaded == 10 * OnLoad(mode_decisions, Zones) > 9 * InputOf(Zones)

\* C2: when the ON zones of the given decision set draw more than 0.9 times
\* the summed inputPower, the ON zones of the balanced decision set draw at
\* most 0.9 times the summed inputPower
C2_BalancedWithinMargin ==
    (pc = "balanced" /\ Overloaded) =>
        10 * OnLoad(decisions, Zones) <= 9 * InputOf(Zones)

\* C2 witness: the scenario of test_load_balancing in the model's powers: all
\* four zones given ON, overloaded, and the balancer keeps two of them ON
C2_Witness ==
    /\ pc = "balanced" /\ Overloaded
    /\ \A z \in Zones : mode_decisions[z] = "ON"
    /\ decisions["Zone1"] = "ON" /\ decisions["Zone2"] = "ON"
    /\ decisions["Zone3"] = "OFF" /\ decisions["Zone4"] = "OFF"
    /\ OnLoad(decisions, Zones) > 0

\* zones the balancer forced from ON to OFF
ForcedOff == {z \in Zones : mode_decisions[z] = "ON" /\ decisions[z] = "OFF"}

\* C3: no zone forced OFF has a strictly higher priority (a smaller priority
\* number) than a zone left ON
C3_PriorityMonotonic ==
    pc = "balanced" =>
        \A z1 \in ForcedOff : \A z2 \in Zones :
            decisions[z2] = "ON" => Priority(z1) > Priority(z2)

---------------------------------------------------------------------------
(* services/firebase_service.py: the command dispatcher *)

\* set_command(zone, command, retry_count=3)
RETRY_COUNT == 3

\* What the body of one attempt (lines 98-105) can do:
\*   "written"    ref.set stores the document; set_document returns True
\*   "swallowed"  the store raises inside set_document, whose own handler
\*                logs the error and returns False
\*   "raised"     an exception reaches the except clause of set_command
\*                before anything is stored
AttemptOutcomes == {"written", "swallowed", "raised"}

\* the return value of set_document
set_document(outcome) == outcome = "written"

\* the loop of set_command from attempt number `attempt` (0-based) on; the
\* value of set_document is not looked at.  attempts and written record what
\* happened; success is the value returned
RECURSIVE SetCommandFrom(_, _)
SetCommandFrom(outcomes, attempt) ==
    IF attempt >= RETRY_COUNT
    THEN [success |-> FALSE, attempts |-> attempt, written |-> FALSE]
    ELSE IF outcomes[attempt + 1] = "raised"
    THEN SetCommandFrom(outcomes, attempt + 1)
    ELSE [success |-> TRUE, attempts |-> attempt + 1,
          written |-> set_document(outcomes[attempt + 1])]

\* set_command under the outcomes the environment gives its attempts
set_command(outcomes) == SetCommandFrom(outcomes, 0)

\* the commands/ documents after set_command(zone, command) with result r:
\* {command, attempt, lastUpdated}
StoreAfter(store, zone, command, r, time) ==
    IF r.written
    THEN (zone :> [command |-> command, attempt |-> r.attempts, lastUpdated |-> time])
         @@ store
    ELSE store

---------------------------------------------------------------------------
(* optimize_energy_allocation, steps 2 and 3: dispatch and return *)

\* the loop of _execute_decisions stopping at the first failed set_command
RemainingAbortOnFailure(rest, r) == IF r.success THEN rest ELSE <<>>

\* the zones the loop of _execute_decisions still visits after set_command
\* has returned r for one zone: the result is recorded and logged, nothing
\* else depends on it
Remaining(rest, r) == rest

\* one iteration of the loop of _execute_decisions
ExecuteDecision ==
    /\ pc = "dispatch"
    /\ todo # <<>>
    /\ LET zone == Head(todo)
           command == decisions[zone]
       IN  \E outcomes \in [1..RETRY_COUNT -> AttemptOutcomes] :
              LET r == set_command(outcomes)
              IN  /\ commands' = StoreAfter(commands, zone, command, r, now)
                  /\ execution_results' =
                        (zone :> [command |-> command, success |-> r.success,
                                  attempts |-> r.attempts, written |-> r.written])
                        @@ execution_results
                  /\ sent' = Append(sent, [zone |-> zone, command |-> command])
                  /\ todo' = Remaining(Tail(todo), r)
                  /\ pc' = IF Remaining(Tail(todo), r) = <<>>
                           THEN "returning" ELSE "dispatch"
    /\ UNCHANGED <<reqVars, sensor_data, reasoning, mode_decisions, decisions, wdVars, bgVars>>

\* lines 75-84: log the decision and return success
OptimizeReturn ==
    /\ pc = "returning"
    /\ pc' = "done"
    /\ UNCHANGED <<reqVars, sensor_data, reasoning, mode_decisions, decisions, todo,
                   execution_results, sent, commands, wdVars, bgVars>>

\* snapshots of the optimize cycle: all zones with the same powers
CycleSnapshots ==
    { s \in UniformSnapshots :
        \A z \in Zones : /\ s[z].inputPower = s["Zone1"].inputPower
                         /\ s[z].outputPower = s["Zone1"].outputPower }

CycleMalformedSnapshots ==
    { [s EXCEPT !["Zone3"].isDict = FALSE] :
        s \in { t \in CycleSnapshots : t["Zone1"].batteryPercentage = 20 } }

\* a sensors/ tree without zones
NoZones == <<>>

\* get_document: the document, or {} when the read fails
get_document(document, ok) == IF ok THEN document ELSE <<>>

\* BackgroundMonitor.run_optimization up to its call of
\* optimize_energy_allocation: the cycle is skipped when get_sensor_data
\* yields nothing, because the fetch failed or the store holds no zones
RunOptimization ==
    /\ pc = "scheduled"
    /\ \E ok \in BOOLEAN :
        pc' = IF DOMAIN get_document(sensor_data, ok) = {} THEN "skipped" ELSE "called"
    /\ UNCHANGED <<reqVars, sensor_data, reasoning, mode_decisions, decisions, todo,
                   execution_results, sent, commands, wdVars, bgVars>>

\* what the store holds at an energy_status request: the zones in normal
\* mode, a zone entry that is not a dict, or no zones
EnergyStatusSnapshots ==
    { s \in CycleSnapshots : s["Zone1"].batteryPercentage = 20 }
        \cup CycleMalformedSnapshots \cup {NoZones}

\* the energy_status request up to its call of
\* get_optimization_recommendations, which calls optimize_energy_allocation
\* with the data fetched: 404 when nothing is fetched, 500 when the metrics
\* of the zones cannot be computed
EnergyStatus ==
    /\ pc = "requested"
    /\ \E ok \in BOOLEAN :
        LET fetched_data == get_document(sensor_data, ok)
        IN  pc' = IF DOMAIN fetched_data = {} THEN "skipped"
                  ELSE IF \E z \in DOMAIN fetched_data : ~fetched_data[z].isDict
                       THEN "failed"
                  ELSE "called"
    /\ UNCHANGED <<reqVars, sensor_data, reasoning, mode_decisions, decisions, todo,
                   execution_results, sent, commands, wdVars, bgVars>>

\* one optimize cycle: the scheduled task or the energy_status request
\* (sensor_data is what the store holds), or a direct call of
\* optimize_energy_allocation with sensor_data
Init ==
    /\ sensor_data \in CycleSnapshots \cup CycleMalformedSnapshots \cup {NoZones}
    /\ \/ pc \in {"scheduled", "called"} /\ request = "none"
       \/ /\ pc = "requested" /\ request = "energy_status"
          /\ sensor_data \in EnergyStatusSnapshots
    /\ reasoning = <<>>
    /\ mode_decisions = NoDecisions
    /\ decisions = NoDecisions
    /\ todo = <<>>
    /\ execution_results = <<>>
    /\ sent = <<>>
    /\ commands = <<>>
    /\ WatchdogStopped
    /\ cycles = <<>>
    /\ returned = <<>>

Next ==
    \/ RunOptimization
    \/ EnergyStatus
    \/ OptimizeDecide
    \/ ExecuteDecision
    \/ OptimizeReturn

Spec == Init /\ [][Next]_vars

---------------------------------------------------------------------------
(* Properties of the dispatcher and of the optimize cycle *)

\* C6: set_command makes at most 3 attempts, returns success exactly when an
\* attempt wrote the command to the store, and after failing to write on
\* every attempt has made exactly 3 attempts and returns failure
C6_DispatchReportsWrites ==
    \A z \in DOMAIN execution_results :
        LET r == execution_results[z]
        IN  /\ r.attempts <= RETRY_COUNT
            /\ r.success <=> r.written
            /\ ~r.written => (r.attempts = RETRY_COUNT /\ ~r.success)

\* C7: a zone whose in-line dispatch reported failure has a FailedCommandEntry
\* for that zone and command in the watchdog's retry queue
C7_FailureQueued ==
    \A z \in DOMAIN execution_results :
        ~execution_results[z].success =>
            /\ z \in DOMAIN failed_commands
            /\ failed_commands[z].command = execution_results[z].command

\* the cycle's snapshot cannot be evaluated
SnapshotUnusable == \E z \in DOMAIN sensor_data : ~sensor_data[z].isDict

\* C8: a command is sent only after the mode policy and the load balancer
\* have produced the decision of every registry zone from the cycle's
\* snapshot, every command sent is the one decided for its zone, and a cycle
\* whose decision computation fails sends no command
C8_DecideThenAct ==
    /\ sent # <<>> =>
          /\ DOMAIN decisions = Zones
          /\ decisions = apply_load_balancing(ModeDecisions(sensor_data), sensor_data)
          /\ \A i \in 1..Len(sent) : sent[i].command = decisions[sent[i].zone]
    /\ commands # <<>> => sent # <<>>
    /\ \A z \in DOMAIN commands : commands[z].command = decisions[z]
    /\ SnapshotUnusable => (sent = <<>> /\ commands = <<>>)
    /\ pc = "failed" => sent = <<>>

\* C8 witness: commands have been sent from a decision set that the load
\* balancer changed
C8_Witness ==
    /\ Len(sent) > 1
    /\ decisions # mode_decisions
    /\ \E z \in DOMAIN commands : commands[z].command = "OFF" /\ mode_decisions[z] = "ON"

---------------------------------------------------------------------------
(* services/watchdog_service.py: the reliability watchdog *)

\* time.sleep(30) at the end of an iteration of _watchdog_loop
TickSeconds == 30
\* a command older than 120 s is considered failed
COMMAND_TIMEOUT == 120
\* a failed command is retried after 300 s
RETRY_AFTER == 300
\* retry_count < 3
MAX_RETRIES == 3
\* connection_failures >= 3
CONNECTION_FAILURE_LIMIT == 3
\* sensor data older than 10 minutes is stale
STALE_SECONDS == 600

\* command_data.get("timestamp", 0): the documents set_command writes hold
\* command, attempt and lastUpdated, and no "timestamp"
CommandTimestamp(command_data) == 0

\* _handle_failed_command
handle_failed_command(queue, zone, command, reason, time) ==
    (zone :> [command |-> command, reason |-> reason, timestamp |-> time,
              retry_count |-> 0])
    @@ queue

\* the loop of _monitor_command_execution over the documents read, in the
\* order of zs
RECURSIVE MonitorFrom(_, _, _, _)
MonitorFrom(queue, read, zs, time) ==
    IF zs = <<>> THEN queue
    ELSE LET zone == Head(zs)
         IN  IF zone \in DOMAIN read
                /\ time - CommandTimestamp(read[zone]) > COMMAND_TIMEOUT
             THEN MonitorFrom(handle_failed_command(queue, zone, read[zone].command,
                                                    "TIMEOUT", time),
                              read, Tail(zs), time)
             ELSE MonitorFrom(queue, read, Tail(zs), time)

\* an entry taken as due once the command timeout has passed
DueAfterTimeout(failure_data, time) ==
    time - failure_data.timestamp > COMMAND_TIMEOUT

\* the entry is due for a retry
Due(failure_data, time) == time - failure_data.timestamp > RETRY_AFTER

RetryAlert(zone, command) ==
    [type |-> "COMMAND_RETRY_FAILURE", zone |-> zone, command |-> command]

\* the writes of the retried zones of zs, applied to the store in order
RECURSIVE RetryWrites(_, _, _, _, _)
RetryWrites(store, queue, zs, time, results) ==
    IF zs = <<>> THEN store
    ELSE RetryWrites(StoreAfter(store, Head(zs), queue[Head(zs)].command,
                                results[Head(zs)], time),
                     queue, Tail(zs), time, results)

\* the body of _retry_failed_commands at time `time` with `limit` retries
\* allowed; results[z] is what set_command does for the retry of zone z.
\* Yields the queue, the store and the alerts raised, in the order of the zones
RetryPass(limit, queue, store, time, results) ==
    LET due == {z \in DOMAIN queue : Due(queue[z], time)}
        retried == {z \in due : queue[z].retry_count < limit}
        given_up == due \ retried
        zones_to_remove == {z \in retried : results[z].success} \cup given_up
        escalated == SelectSeq(sorted_zones, LAMBDA z : z \in given_up)
    IN  [queue |->
            [z \in DOMAIN queue \ zones_to_remove |->
                IF z \in retried
                THEN [queue[z] EXCEPT !.retry_count = @ + 1, !.timestamp = time]
                ELSE queue[z]],
         store |-> RetryWrites(store, queue,
                               SelectSeq(sorted_zones, LAMBDA z : z \in retried),
                               time, results),
         alerts |-> [i \in 1..Len(escalated) |->
                        RetryAlert(escalated[i], queue[escalated[i]].command)]]

\* the drain that gives up one retry early
retry_failed_commands_early(queue, store, time, results) ==
    RetryPass(MAX_RETRIES - 1, queue, store, time, results)

\* _retry_failed_commands
retry_failed_commands(queue, store, time, results) ==
    RetryPass(MAX_RETRIES, queue, store, time, results)

\* the results set_command can give
SetCommandResults == { set_command(o) : o \in [1..RETRY_COUNT -> AttemptOutcomes] }

\* the zones whose commands the watchdog is followed for
WatchedZones == {"Zone1", "Zone3"}

\* the snapshot get_sensor_data yields when the store answers
WatchdogSnapshot == [z \in Zones |-> ZoneMetrics(50)]

\* the "timestamp" of the sensors/ entries: an ISO date-time, here its
\* seconds and its zone suffix ("" or "Z")
SensorTimestamps ==
    [z \in {"Zone1", "Zone3"} |->
        [seconds |-> StartTime + 10 * TickSeconds - STALE_SECONDS, suffix |-> ""]]

\* a check of the tick that ran to its end
Completed(check) == [check |-> check, raised |-> FALSE]

ConnectionAlert ==
    [type |-> "FIREBASE_CONNECTION_FAILURE", zone |-> "none", command |-> "none"]

\* the check that raises its alert without resetting the counter
check_firebase_connectivity_no_reset(failures, data) ==
    LET counted == IF DOMAIN data # {} THEN 0 ELSE failures + 1
    IN  [failures |-> counted, alert |-> counted >= CONNECTION_FAILURE_LIMIT]

\* the body of _check_firebase_connectivity: the counter it leaves and
\* whether it raises the alert, from the counter it finds and the data read
check_firebase_connectivity(failures, data) ==
    LET counted == IF DOMAIN data # {} THEN 0 ELSE failures + 1
    IN  IF counted >= CONNECTION_FAILURE_LIMIT
        THEN [failures |-> 0, alert |-> TRUE]
        ELSE [failures |-> counted, alert |-> FALSE]

\* _check_firebase_connectivity.  get_sensor_data yields {} when the store
\* fails and send_emergency_alert catches the errors of its channels, so
\* nothing reaches the except clause
CheckConnectivity ==
    /\ wpc = "connectivity"
    /\ \E ok \in BOOLEAN :
        LET check == check_firebase_connectivity(connection_failures,
                                                 get_document(sensor_data, ok))
        IN  /\ alerts' = IF check.alert THEN Append(alerts, ConnectionAlert)
                         ELSE alerts
            /\ connection_failures' = check.failures
    /\ wpc' = "monitor"
    /\ ran' = Append(ran, Completed("connectivity"))
    /\ UNCHANGED <<reqVars, optVars, bgVars, commands, now, failed_commands, observed_at, fetched>>

\* _monitor_command_execution.  Every document of commands/ is a dict, as
\* set_command writes it
MonitorCommands ==
    /\ wpc = "monitor"
    /\ \E ok \in BOOLEAN :
        failed_commands' =
            MonitorFrom(failed_commands, get_document(commands, ok), sorted_zones, now)
    /\ wpc' = "freshness"
    /\ ran' = Append(ran, Completed("monitor"))
    /\ UNCHANGED <<reqVars, optVars, bgVars, commands, now, connection_failures, observed_at, fetched,
                   alerts>>

\* the alerts of _check_data_freshness for the zones of zs, in order
\* datetime.fromisoformat(data_timestamp.replace('Z', '+00:00')): a
\* date-time that is aware of its zone when the text carries one
fromisoformat(data_timestamp) ==
    [seconds |-> data_timestamp.seconds, aware |-> data_timestamp.suffix = "Z"]

\* current_time - data_time raises TypeError for an aware data_time:
\* current_time is datetime.utcnow(), which is naive
AgeRaises(data_time) == data_time.aware

RECURSIVE StaleAlerts(_, _, _)
StaleAlerts(stamps, zs, time) ==
    IF zs = <<>> THEN <<>>
    ELSE LET zone == Head(zs)
             rest == StaleAlerts(stamps, Tail(zs), time)
         IN  IF /\ zone \in DOMAIN stamps
                /\ ~AgeRaises(fromisoformat(stamps[zone]))
                /\ time - fromisoformat(stamps[zone]).seconds > STALE_SECONDS
                /\ ZoneType(zone) = "critical"
             THEN <<[type |-> "STALE_DATA_CRITICAL", zone |-> zone,
                     command |-> "none"]>> \o rest
             ELSE rest

\* _check_data_freshness; the error of a zone's age is caught for that zone
CheckFreshness ==
    /\ wpc = "freshness"
    /\ \E ok \in BOOLEAN :
        alerts' = alerts \o StaleAlerts(get_document(observed_at, ok), sorted_zones, now)
    /\ wpc' = "retry"
    /\ ran' = Append(ran, Completed("freshness"))
    /\ UNCHANGED <<reqVars, optVars, bgVars, commands, now, failed_commands, connection_failures,
                   observed_at, fetched>>

\* _retry_failed_commands
RetryFailedCommands ==
    /\ wpc = "retry"
    /\ \E results \in [DOMAIN failed_commands -> SetCommandResults] :
        LET pass == retry_failed_commands(failed_commands, commands, now, results)
        IN  /\ failed_commands' = pass.queue
            /\ commands' = pass.store
            /\ alerts' = alerts \o pass.alerts
    /\ wpc' = "sleep"
    /\ ran' = Append(ran, Completed("retry"))
    /\ UNCHANGED <<reqVars, optVars, bgVars, now, connection_failures, observed_at, fetched>>

\* time.sleep(30) and the next iteration of _watchdog_loop; the loop is
\* followed while no check raises
Sleep ==
    /\ wpc = "sleep"
    /\ now < StartTime + MaxTicks * TickSeconds
    /\ now' = now + TickSeconds
    /\ alerts' = <<>>
    /\ ran' = <<>>
    /\ wpc' = "connectivity"
    /\ UNCHANGED <<reqVars, optVars, bgVars, commands, failed_commands, connection_failures,
                   observed_at, fetched>>

\* the zone's controller clears its command once it has executed it
ClearCommand ==
    /\ wpc # "stopped"
    /\ \E zone \in DOMAIN commands :
        commands' = [z \in DOMAIN commands \ {zone} |-> commands[z]]
    /\ UNCHANGED <<reqVars, optVars, wdVars, bgVars>>

\* the command pending for a watched zone when the watchdog starts
PendingCommand(zone) == IF ZoneType(zone) = "critical" THEN "ON" ELSE "OFF"

\* the commands/ documents when the watchdog starts: one zone's command,
\* written by set_command at its first attempt
PendingCommands ==
    { StoreAfter(<<>>, zone, PendingCommand(zone),
                 set_command([i \in 1..RETRY_COUNT |-> "written"]), StartTime) :
        zone \in WatchedZones }

InitWatchdog ==
    /\ sensor_data = WatchdogSnapshot
    /\ pc = "idle"
    /\ reasoning = <<>>
    /\ mode_decisions = NoDecisions
    /\ decisions = NoDecisions
    /\ todo = <<>>
    /\ execution_results = <<>>
    /\ sent = <<>>
    /\ commands \in PendingCommands
    /\ now = StartTime
    /\ wpc = "connectivity"
    /\ failed_commands = <<>>
    /\ connection_failures = 0
    /\ observed_at = SensorTimestamps
    /\ fetched = <<>>
    /\ ran = <<>>
    /\ alerts = <<>>
    /\ BackgroundNotStarted
    /\ NoRequest
    /\ watchdog_running = TRUE

NextWatchdog ==
    \/ CheckConnectivity
    \/ MonitorCommands
    \/ CheckFreshness
    \/ RetryFailedCommands
    \/ Sleep
    \/ ClearCommand

SpecWatchdog == InitWatchdog /\ [][NextWatchdog]_vars

---------------------------------------------------------------------------
(* Properties of the retry queue *)

\* the entry of zone has used up its retries and is due for another pass
Exhausted(zone) ==
    /\ zone \in DOMAIN failed_commands
    /\ failed_commands[zone].retry_count = MAX_RETRIES
    /\ Due(failed_commands[zone], now)

C10_NoEntryAtThreeAfterDrain ==
    wpc = "sleep" =>
        \A zone \in DOMAIN failed_commands :
            failed_commands[zone].retry_count < MAX_RETRIES

---------------------------------------------------------------------------
(* The watchdog loop under fair ticking, for as long as it runs *)

\* The checks compare time.time() with the timestamps they meet and read
\* nothing else of either, so a run is described as well from the frame of
\* the clock: the clock reads StartTime at every tick and the 30 s slept move
\* every timestamp 30 s into the past.  A timestamp older than every
\* threshold of the checks is kept at OldestAge
OldestAge == STALE_SECONDS + TickSeconds

Elapsed(timestamp) ==
    IF now - (timestamp - TickSeconds) > OldestAge
    THEN now - OldestAge
    ELSE timestamp - TickSeconds

\* time.sleep(30) and the next iteration of _watchdog_loop, in the frame of
\* the clock
SleepElapsed ==
    /\ wpc = "sleep"
    /\ failed_commands' =
          [z \in DOMAIN failed_commands |->
              [failed_commands[z] EXCEPT !.timestamp = Elapsed(@)]]
    /\ commands' =
          [z \in DOMAIN commands |-> [commands[z] EXCEPT !.lastUpdated = Elapsed(@)]]
    /\ observed_at' =
          [z \in DOMAIN observed_at |-> [observed_at[z] EXCEPT !.seconds = Elapsed(@)]]
    /\ alerts' = <<>>
    /\ ran' = <<>>
    /\ wpc' = "connectivity"
    /\ UNCHANGED <<reqVars, optVars, bgVars, now, connection_failures, fetched>>

\* one step of _watchdog_loop: a check, or the sleep between two iterations
WatchdogTick ==
    \/ CheckConnectivity
    \/ MonitorCommands
    \/ CheckFreshness
    \/ RetryFailedCommands
    \/ SleepElapsed

NextWatchdogFair == WatchdogTick \/ ClearCommand

\* the watchdog thread keeps running: every tick runs its four checks and
\* is followed by the next tick.  The zones' controllers are under no
\* obligation to clear their commands
SpecWatchdogFair ==
    InitWatchdog /\ [][NextWatchdogFair]_vars /\ WF_vars(WatchdogTick)

\* C11: every entry placed in the retry queue eventually leaves it, resolved
\* or escalated: the monitor of the later ticks does not keep it there
C11_EntryLeavesQueue ==
    \A zone \in WatchedZones :
        (zone \in DOMAIN failed_commands) ~> (zone \notin DOMAIN failed_commands)

---------------------------------------------------------------------------
(* Properties of the command-execution monitor *)

\* the monitor step has classified the zone's command TIMEOUT and handed it
\* to the retry queue
HandedOver(zone) ==
    /\ zone \in DOMAIN failed_commands'
    /\ failed_commands'[zone].reason = "TIMEOUT"
    /\ failed_commands'[zone].timestamp = now
    /\ failed_commands'[zone].retry_count = 0

\* the zone has a pending command that was issued more than 120 s ago
IssuedLongAgo(zone) ==
    /\ zone \in DOMAIN commands
    /\ now - commands[zone].lastUpdated > COMMAND_TIMEOUT

\* C12: the monitor hands a zone's command to the retry queue as TIMEOUT only
\* if the command was issued more than 120 s before the check, and it hands
\* over every such command it reads (a failed read leaves the queue as it is)
C12_TimeoutIffOld ==
    [][(wpc = "monitor" /\ wpc' = "freshness") =>
        \A zone \in Zones :
            /\ HandedOver(zone) => IssuedLongAgo(zone)
            /\ IssuedLongAgo(zone) =>
                  (HandedOver(zone) \/ failed_commands' = failed_commands)]_vars

---------------------------------------------------------------------------
(* The connectivity check over a sequence of fetches *)

\* the connectivity check is followed for MaxFetches fetches
MaxFetches == 7

\* one run of _check_firebase_connectivity, the outcome of its fetch recorded
FetchAndCheck ==
    /\ wpc = "connectivity"
    /\ Len(fetched) < MaxFetches
    /\ \E ok \in BOOLEAN :
        LET check == check_firebase_connectivity(connection_failures,
                                                 get_document(sensor_data, ok))
        IN  /\ alerts' = IF check.alert THEN Append(alerts, ConnectionAlert)
                         ELSE alerts
            /\ connection_failures' = check.failures
            /\ fetched' = Append(fetched, [ok |-> ok, alerted |-> check.alert])
    /\ UNCHANGED <<reqVars, optVars, bgVars, commands, now, wpc, failed_commands, observed_at, ran>>

SpecConnectivity == InitWatchdog /\ [][FetchAndCheck]_vars

\* the failed fetches in a row up to fetch i, counted from the last
\* successful fetch or from the last row of three
RECURSIVE FailedInARow(_)
FailedInARow(i) ==
    IF i = 0 \/ fetched[i].ok THEN 0
    ELSE (FailedInARow(i - 1) % CONNECTION_FAILURE_LIMIT) + 1

\* C13: the connectivity alert is raised exactly in the checks that observe a
\* third consecutive failed fetch, the counter is reset in those checks and
\* by every successful fetch, and it is in 0..2 after every check
C13_AlertAtThirdFailure ==
    /\ \A i \in 1..Len(fetched) :
          fetched[i].alerted <=> FailedInARow(i) = CONNECTION_FAILURE_LIMIT
    /\ connection_failures = FailedInARow(Len(fetched)) % CONNECTION_FAILURE_LIMIT
    /\ connection_failures \in 0..(CONNECTION_FAILURE_LIMIT - 1)
    /\ Len(alerts) = Cardinality({i \in 1..Len(fetched) : fetched[i].alerted})

\* three failed fetches, an alert, and three more failed fetches after a
\* successful one have been observed
C13_Witness ==
    /\ Len(fetched) = MaxFetches
    /\ \A i \in 1..MaxFetches : fetched[i].ok <=> i = 4
    /\ Len(alerts) = 2
    /\ connection_failures = 0

---------------------------------------------------------------------------
(* The data-freshness check over the timestamps of the zones' metrics *)

\* the ages, in seconds, of the timestamps the check is followed for
StampAges == {STALE_SECONDS - 1, STALE_SECONDS, STALE_SECONDS + 1, STALE_SECONDS + 60}

\* sensors/ entries of Zone1 and Zone3, each with or without a "timestamp"
FreshnessStamps ==
    UNION { [zs -> [seconds : {StartTime - a : a \in StampAges}, suffix : {"", "Z"}]] :
              zs \in SUBSET {"Zone1", "Zone3"} }

\* one run of _check_data_freshness, the outcome of its fetch recorded
FetchAndCheckFreshness ==
    /\ wpc = "freshness"
    /\ \E ok \in BOOLEAN :
        LET raised == StaleAlerts(get_document(observed_at, ok), sorted_zones, now)
        IN  /\ alerts' = alerts \o raised
            /\ fetched' = Append(fetched, [ok |-> ok, alerted |-> raised # <<>>])
    /\ wpc' = "retry"
    /\ UNCHANGED <<reqVars, optVars, bgVars, commands, now, failed_commands, connection_failures,
                   observed_at, ran>>

InitFreshness ==
    /\ sensor_data = WatchdogSnapshot
    /\ pc = "idle"
    /\ reasoning = <<>>
    /\ mode_decisions = NoDecisions
    /\ decisions = NoDecisions
    /\ todo = <<>>
    /\ execution_results = <<>>
    /\ sent = <<>>
    /\ commands = <<>>
    /\ now = StartTime
    /\ wpc = "freshness"
    /\ failed_commands = <<>>
    /\ connection_failures = 0
    /\ observed_at \in FreshnessStamps
    /\ fetched = <<>>
    /\ ran = <<>>
    /\ alerts = <<>>
    /\ BackgroundNotStarted
    /\ NoRequest
    /\ watchdog_running = TRUE

SpecFreshness == InitFreshness /\ [][FetchAndCheckFreshness]_vars

\* the zone's metrics are more than 10 minutes old
Stale(zone) ==
    /\ zone \in DOMAIN observed_at
    /\ now - observed_at[zone].seconds > STALE_SECONDS

StaleAlerted(zone) ==
    \E i \in 1..Len(alerts) :
        alerts[i].type = "STALE_DATA_CRITICAL" /\ alerts[i].zone = zone

\* C14: a freshness check that has fetched the metrics has raised the
\* stale-data alert for a zone exactly when the zone's metrics are more than
\* 10 minutes old and the zone is critical
C14_StaleCriticalAlerted ==
    (wpc = "retry" /\ fetched[1].ok) =>
        \A zone \in Zones :
            StaleAlerted(zone) <=> (Stale(zone) /\ ZoneType(zone) = "critical")

---------------------------------------------------------------------------
(* The watchdog loop with failures raised inside its checks *)

\* the four checks of a tick, in the order _watchdog_loop calls them
Checks == <<"connectivity", "monitor", "freshness", "retry">>

\* the position of the loop after a check has returned
AfterCheck(check) ==
    CASE check = "connectivity" -> "monitor"
      [] check = "monitor" -> "freshness"
      [] check = "freshness" -> "retry"
      [] check = "retry" -> "sleep"

\* only the connectivity check catches what is raised inside it
CatchesConnectivityOnly(check) == check = "connectivity"

\* the checks whose body is a try with an except Exception clause of its
\* own; _retry_failed_commands has none
Catches(check) == check \in {"connectivity", "monitor", "freshness"}

\* a check of the tick that raised
Raised(check) == [check |-> check, raised |-> TRUE]

\* connection_failures is followed up to MaxFailures
MaxFailures == 4

\* an exception is raised inside the check the loop is at, before the check
\* has had an effect: the check's own except clause logs it (the one of the
\* connectivity check counts it as well) and the check returns, or, where
\* the check has no such clause, the exception reaches the except clause of
\* _watchdog_loop
CheckRaises ==
    /\ wpc \in {Checks[i] : i \in 1..Len(Checks)}
    /\ connection_failures < MaxFailures
    /\ ran' = Append(ran, Raised(wpc))
    /\ IF Catches(wpc)
       THEN /\ wpc' = AfterCheck(wpc)
            /\ connection_failures' =
                  IF wpc = "connectivity" THEN connection_failures + 1
                  ELSE connection_failures
       ELSE /\ wpc' = "error"
            /\ connection_failures' = connection_failures
    /\ UNCHANGED <<reqVars, optVars, bgVars, commands, now, failed_commands, observed_at, fetched,
                   alerts>>

\* the except clause of _watchdog_loop: time.sleep(60) and the next
\* iteration, in the frame of the clock
SleepAfterError ==
    /\ wpc = "error"
    /\ failed_commands' =
          [z \in DOMAIN failed_commands |->
              [failed_commands[z] EXCEPT !.timestamp = Elapsed(Elapsed(@))]]
    /\ commands' =
          [z \in DOMAIN commands |->
              [commands[z] EXCEPT !.lastUpdated = Elapsed(Elapsed(@))]]
    /\ observed_at' =
          [z \in DOMAIN observed_at |->
              [observed_at[z] EXCEPT !.seconds = Elapsed(Elapsed(@))]]
    /\ alerts' = <<>>
    /\ ran' = <<>>
    /\ wpc' = "connectivity"
    /\ UNCHANGED <<reqVars, optVars, bgVars, now, connection_failures, fetched>>

NextWatchdogFaults == NextWatchdogFair \/ CheckRaises \/ SleepAfterError

SpecWatchdogFaults == InitWatchdog /\ [][NextWatchdogFaults]_vars

\* the number of checks the tick has behind it at a position of the loop
ChecksBehind(position) ==
    CASE position = "connectivity" -> 0
      [] position = "monitor" -> 1
      [] position = "freshness" -> 2
      [] position = "retry" -> 3
      [] position \in {"sleep", "error"} -> 4

\* C15: whatever was raised inside the checks of a tick, the tick has run
\* every check that precedes its position, all four when it comes to sleep,
\* and the loop goes on: it is at a check or asleep, and has a next step
C15_ChecksAllRun ==
    /\ wpc \in {"connectivity", "monitor", "freshness", "retry", "sleep", "error"}
    /\ [i \in 1..Len(ran) |-> ran[i].check] = SubSeq(Checks, 1, ChecksBehind(wpc))
    /\ wpc \in {"sleep", "error"} => ENABLED (SleepElapsed \/ SleepAfterError)

\* a tick in which every check raised has run all four and comes to sleep
C15_Witness ==
    /\ wpc = "error"
    /\ Len(ran) = 4
    /\ \A i \in 1..4 : ran[i].raised

---------------------------------------------------------------------------
(* services/background_service.py: the scheduler and its periodic tasks *)

\* schedule.every(30).seconds, every(5).minutes, every(1).hours
MONITOR_PERIOD == 30
OPTIMIZE_PERIOD == 300
RETRAIN_PERIOD == 3600
\* (current_time - self.last_optimization).seconds < 300
RATE_LIMIT_SECONDS == 300
\* timedelta.seconds is the part of the difference below one day
DAY_SECONDS == 86400

Tasks == <<"monitor_system", "run_optimization", "retrain_models">>

Period(task) ==
    CASE task = "monitor_system" -> MONITOR_PERIOD
      [] task = "run_optimization" -> OPTIMIZE_PERIOD
      [] task = "retrain_models" -> RETRAIN_PERIOD

\* the calls of start_background_tasks: the one made when the app module is
\* imported and the one the WSGI entry point makes after importing it
Starters == <<"app", "wsgi">>

\* the seconds a run of the task may take
RunSeconds(task) == IF task = "run_optimization" THEN MaxRunSeconds ELSE 0

IdleThread == [job |-> 0, began |-> 0]

\* BackgroundMonitor.start: three more jobs on the default scheduler, each
\* first due one period from now, and one more thread running _run_scheduler
StartBackground ==
    /\ Len(threads) < Len(Starters)
    /\ now = StartTime
    /\ jobs' = jobs \o [i \in 1..Len(Tasks) |->
                          [task |-> Tasks[i], next_run |-> now + Period(Tasks[i])]]
    /\ threads' = Append(threads, IdleThread)
    /\ monitor_running' = TRUE
    /\ UNCHANGED <<watchdog_running, request, cycles, returned, optVars, commands,
                   wdVars, last_optimization, manual, completed>>

\* the rate limiter of run_optimization
RateLimited(last, current_time) ==
    /\ last # <<>>
    /\ (current_time - last[1]) % DAY_SECONDS < RATE_LIMIT_SECONDS

\* schedule.Job.run, once the job function has returned
Rescheduled(job, time) == [job EXCEPT !.next_run = time + Period(job.task)]

\* a scheduler thread finds job j pending in run_pending and calls it.
\* run_optimization returns at once when it is rate limited or gets no
\* sensor data; otherwise the thread is inside the job
BeginJob(th, j) ==
    /\ threads[th].job = 0
    /\ jobs[j].next_run <= now
    /\ \E fetched_data \in BOOLEAN :
        IF /\ jobs[j].task = "run_optimization"
           /\ (RateLimited(last_optimization, now) \/ ~fetched_data)
        THEN /\ jobs' = [jobs EXCEPT ![j] = Rescheduled(@, now)]
             /\ threads' = threads
        ELSE /\ threads' = [threads EXCEPT ![th] = [job |-> j, began |-> now]]
             /\ jobs' = jobs
    /\ UNCHANGED <<reqVars, optVars, commands, wdVars, last_optimization, manual, completed>>

\* the job function returns.  run_optimization has called
\* optimize_energy_allocation, which has decided and dispatched; on success
\* last_optimization becomes the current_time taken when the job began
FinishJob(th) ==
    /\ threads[th].job # 0
    /\ LET j == threads[th].job
       IN  /\ jobs' = [jobs EXCEPT ![j] = Rescheduled(@, now)]
           /\ IF jobs[j].task = "run_optimization"
              THEN \E success \in BOOLEAN :
                     /\ last_optimization' = IF success THEN <<threads[th].began>>
                                             ELSE last_optimization
                     /\ completed' = IF success THEN <<now>> ELSE completed
              ELSE UNCHANGED <<reqVars, last_optimization, completed>>
    /\ threads' = [threads EXCEPT ![th] = IdleThread]
    /\ UNCHANGED <<reqVars, optVars, commands, wdVars, manual>>

\* force_optimization and the energy controller's run_optimization: a
\* request thread calls optimize_energy_allocation
ManualBegin ==
    /\ threads # <<>>
    /\ Len(manual) < MaxManual
    /\ manual' = Append(manual, [running |-> TRUE, began |-> now])
    /\ UNCHANGED <<reqVars, optVars, commands, wdVars, jobs, threads, last_optimization,
                   completed>>

ManualFinish ==
    /\ \E i \in 1..Len(manual) :
        /\ manual[i].running
        /\ manual' = [manual EXCEPT ![i] = [running |-> FALSE, began |-> 0]]
    /\ UNCHANGED <<reqVars, optVars, commands, wdVars, jobs, threads, last_optimization,
                   completed>>

\* a second passes: every thread that is idle has run what was pending
\* (run_pending, time.sleep(1)) and no run takes longer than it may
SecondPasses ==
    /\ threads # <<>>
    /\ now < StartTime + MaxSchedulerSeconds
    /\ \A th \in 1..Len(threads) :
        IF threads[th].job = 0
        THEN \A j \in 1..Len(jobs) : jobs[j].next_run > now
        ELSE now - threads[th].began < RunSeconds(jobs[threads[th].job].task)
    /\ \A i \in 1..Len(manual) :
        manual[i].running => now - manual[i].began < MaxRunSeconds
    /\ now' = now + 1
    /\ UNCHANGED <<reqVars, optVars, commands, wpc, failed_commands, connection_failures,
                   observed_at, fetched, ran, alerts, bgVars>>

InitScheduler ==
    /\ sensor_data = WatchdogSnapshot
    /\ pc = "idle"
    /\ reasoning = <<>>
    /\ mode_decisions = NoDecisions
    /\ decisions = NoDecisions
    /\ todo = <<>>
    /\ execution_results = <<>>
    /\ sent = <<>>
    /\ commands = <<>>
    /\ now = StartTime
    /\ wpc = "stopped"
    /\ failed_commands = <<>>
    /\ connection_failures = 0
    /\ observed_at = <<>>
    /\ fetched = <<>>
    /\ ran = <<>>
    /\ alerts = <<>>
    /\ BackgroundNotStarted
    /\ NoRequest
    /\ watchdog_running = FALSE

NextScheduler ==
    \/ StartBackground
    \/ \E th \in 1..Len(threads) : \E j \in 1..Len(jobs) : BeginJob(th, j)
    \/ \E th \in 1..Len(threads) : FinishJob(th)
    \/ ManualBegin
    \/ ManualFinish
    \/ SecondPasses

SpecScheduler == InitScheduler /\ [][NextScheduler]_vars

\* thread th is inside the task
Inside(th, task) == threads[th].job # 0 /\ jobs[threads[th].job].task = task

\* the step takes thread th into run_optimization's call of
\* optimize_energy_allocation
BeginsOptimizing(th) ==
    /\ th \in 1..Len(threads)
    /\ threads[th].job = 0
    /\ threads'[th].job # 0
    /\ jobs[threads'[th].job].task = "run_optimization"

\* less than 300 s have passed since the last automatic optimization ended
InWindow == completed # <<>> /\ now - completed[1] < RATE_LIMIT_SECONDS

\* C16: a tick of the automatic optimization that comes less than 300 s
\* after the previous automatic optimization ended decides and dispatches
\* nothing
C16_NoRunInWindow ==
    [][\A th \in 1..Len(Starters) : BeginsOptimizing(th) => ~InWindow]_vars

\* C17: a caller-requested optimization does not begin while a thread is
\* inside the automatic optimization, and neither begins nor ends (its
\* commands dispatched) less than 300 s after the last automatic
\* optimization ended
C17_ManualWaits ==
    [][/\ Len(manual') > Len(manual) =>
            /\ \A th \in 1..Len(threads) : ~Inside(th, "run_optimization")
            /\ ~InWindow
       /\ (\E i \in 1..Len(manual) : manual[i].running /\ ~manual'[i].running) =>
            ~InWindow]_vars

\* C18: no two scheduler threads are inside the same periodic task at once,
\* however the application has started the scheduler
C18_NoSelfOverlap ==
    \A th1 \in 1..Len(threads), th2 \in 1..Len(threads) :
        \A i \in 1..Len(Tasks) :
            (Inside(th1, Tasks[i]) /\ Inside(th2, Tasks[i])) => th1 = th2

---------------------------------------------------------------------------
(* The optimize cycle without a snapshot *)

\* nothing has been decided and no command has been sent
NothingDone ==
    /\ mode_decisions = NoDecisions
    /\ decisions = NoDecisions
    /\ execution_results = <<>>
    /\ sent = <<>>
    /\ commands = <<>>

\* C19: without a snapshot the cycle is skipped: the scheduled task that
\* fetches nothing, and every cycle over a store without zones, decides
\* nothing and sends no command, and a direct call of
\* optimize_energy_allocation without zones ends with success false
C19_NoSnapshotNoCycle ==
    /\ pc = "skipped" => NothingDone
    /\ DOMAIN sensor_data = {} =>
          /\ NothingDone
          /\ pc \in {"scheduled", "requested", "skipped", "called", "failed"}

\* a direct call without zones has returned success false
C19_Witness == DOMAIN sensor_data = {} /\ pc = "failed" /\ NothingDone

---------------------------------------------------------------------------
(* The dispatch phase visits every zone *)

\* the zones a command has been attempted for
Attempted == { sent[i].zone : i \in 1..Len(sent) }

\* the zones still to visit
Waiting == { todo[i] : i \in 1..Len(todo) }

\* C20: in the dispatch phase a command is attempted for every zone of the
\* decision set: whatever the earlier dispatches returned, every zone has
\* been attempted or is still to be visited, all of them have been attempted
\* when the phase is over, and a command written for a zone stays in the
\* store while the other zones are dispatched
C20_EveryZoneAttempted ==
    pc \in {"dispatch", "returning", "done"} =>
        /\ Attempted \cup Waiting = DOMAIN decisions
        /\ Attempted = DOMAIN execution_results
        /\ pc \in {"returning", "done"} => Attempted = DOMAIN decisions
        /\ \A i \in 1..Len(sent) :
              /\ execution_results[sent[i].zone].command = decisions[sent[i].zone]
              /\ execution_results[sent[i].zone].written =>
                    /\ sent[i].zone \in DOMAIN commands
                    /\ commands[sent[i].zone].command = decisions[sent[i].zone]

\* a cycle is over in which the dispatch for one zone failed and every zone
\* behind it was attempted, one of them written to the store
C20_Witness ==
    /\ pc = "done"
    /\ Len(sent) = Cardinality(DOMAIN decisions)
    /\ \E i, j \in 1..Len(sent) :
          /\ i < j
          /\ ~execution_results[sent[i].zone].success
          /\ execution_results[sent[j].zone].written

---------------------------------------------------------------------------
(* _calculate_efficiency applied to one zone's metrics *)

\* no optimize cycle, no watchdog and no scheduler is under way
AllQuiet ==
    /\ pc = "idle"
    /\ reasoning = <<>>
    /\ mode_decisions = NoDecisions
    /\ decisions = NoDecisions
    /\ todo = <<>>
    /\ execution_results = <<>>
    /\ sent = <<>>
    /\ commands = <<>>
    /\ WatchdogStopped
    /\ request = "none"
    /\ cycles = <<>>

\* powers in watts and voltages in tenths of a volt, on both sides of each
\* cap: output below, at and above input; voltage below, at and above 12.6 V
EfficiencyPowers == 0..MaxEfficiencyPower
EfficiencyVoltages == {0, 105, 120, 126, 127, 150}

EfficiencyInputs ==
    [isDict : {TRUE}, inputPower : EfficiencyPowers, outputPower : EfficiencyPowers,
     batteryPercentage : {50}, batteryVoltage : EfficiencyVoltages]

\* one call of _calculate_efficiency(zone_data); the score is num / den
CalculateEfficiency ==
    /\ returned = <<>>
    /\ returned' = <<[num |-> EffNum(sensor_data["Zone2"]),
                      den |-> EffDen(sensor_data["Zone2"])]>>
    /\ UNCHANGED <<optVars, commands, wdVars, bgVars, watchdog_running,
                   monitor_running, request, cycles>>

InitEfficiency ==
    /\ sensor_data \in [{"Zone2"} -> EfficiencyInputs]
    /\ returned = <<>>
    /\ AllQuiet

SpecEfficiency == InitEfficiency /\ [][CalculateEfficiency]_vars

\* C22: for non-negative inputPower, outputPower and batteryVoltage the
\* efficiency score is at least 0 and at most 1, and it is 0 whenever
\* inputPower is 0
C22_EfficiencyInUnitInterval ==
    returned # <<>> =>
        /\ returned[1].den > 0
        /\ 0 <= returned[1].num
        /\ returned[1].num <= returned[1].den
        /\ sensor_data["Zone2"].inputPower = 0 => returned[1].num = 0

\* the score of a zone that puts out more than it takes in, at a battery
\* voltage above 12.6 V: both factors are capped and the score is exactly 1
C22_Witness ==
    /\ returned # <<>>
    /\ sensor_data["Zone2"].inputPower > 0
    /\ sensor_data["Zone2"].outputPower > sensor_data["Zone2"].inputPower
    /\ sensor_data["Zone2"].batteryVoltage > 126
    /\ returned[1].num = returned[1].den

---------------------------------------------------------------------------
(* The load balancer only sheds *)

\* C24: the load balancer never changes a zone from OFF to ON: every zone
\* that is ON in the balanced decision set was ON in the set it was given,
\* and the balanced set decides the same zones
C24_NeverSwitchesOn ==
    pc = "balanced" =>
        /\ DOMAIN decisions = DOMAIN mode_decisions
        /\ \A z \in DOMAIN decisions :
              decisions[z] = "ON" => mode_decisions[z] = "ON"

\* the balancer has shed a zone of a decision set in which a zone given OFF
\* draws no power, so that switching it ON would have cost nothing
C24_Witness ==
    /\ pc = "balanced"
    /\ \E z \in Zones : mode_decisions[z] = "OFF" /\ sensor_data[z].outputPower = 0
    /\ \E z \in Zones : mode_decisions[z] = "ON" /\ decisions[z] = "OFF"

---------------------------------------------------------------------------
(* The mode ladder *)

\* the sum of the battery percentages is in [low * n, high * n) for the n
\* zones of the snapshot, that is low <= avg_battery < high
AvgBatteryIn(low, high) ==
    /\ low * Cardinality(DOMAIN sensor_data) <= BatterySum(sensor_data)
    /\ BatterySum(sensor_data) < high * Cardinality(DOMAIN sensor_data)

Modes ==
    {"Emergency mode: Critical battery level", "Critical mode: Low battery",
     "Conservation mode: Battery below threshold", "Normal mode: Sufficient battery"}

\* C26: mode selection is a total first-match ladder on the average battery
\* percentage: every snapshot whose entries can be read gets exactly one
\* mode, Emergency iff avg < 5, Critical iff 5 <= avg < 10, Conservation iff
\* 10 <= avg < 20, and Normal iff avg >= 20
C26_ModeLadder ==
    (pc # "called" /\ ~SnapshotUnusable) =>
        /\ Decided
        /\ Len(reasoning) = 2
        /\ reasoning[1] \in Modes
        /\ reasoning[1] = "Emergency mode: Critical battery level"
              <=> AvgBatteryIn(0, 5)
        /\ reasoning[1] = "Critical mode: Low battery"
              <=> AvgBatteryIn(5, 10)
        /\ reasoning[1] = "Conservation mode: Battery below threshold"
              <=> AvgBatteryIn(10, 20)
        /\ reasoning[1] = "Normal mode: Sufficient battery"
              <=> ~AvgBatteryIn(0, 20)

\* Critical mode chosen for zones of different battery levels whose average,
\* 21/4, lies strictly between two thresholds
C26_Witness ==
    /\ Decided
    /\ BatterySum(sensor_data) = 21
    /\ Cardinality(DOMAIN sensor_data) = 4
    /\ reasoning[1] = "Critical mode: Low battery"

---------------------------------------------------------------------------
(* The retry dispatches of the watchdog, for as long as it runs *)

\* the entries the drain at time `time` calls set_command for
Retried(queue, time) ==
    {z \in DOMAIN queue : Due(queue[z], time) /\ queue[z].retry_count < MAX_RETRIES}

\* the set_command calls of one drain, in the order of the zones
RetryCalls(queue, time) ==
    LET zs == SelectSeq(sorted_zones, LAMBDA z : z \in Retried(queue, time))
    IN  [i \in 1..Len(zs) |-> [zone |-> zs[i], command |-> queue[zs[i]].command]]

\* _retry_failed_commands, with its set_command calls recorded
RetryFailedCommandsRecorded ==
    /\ wpc = "retry"
    /\ Len(returned) + Len(RetryCalls(failed_commands, now)) <= MaxRecordedRetries
    /\ \E results \in [DOMAIN failed_commands -> SetCommandResults] :
        LET pass == retry_failed_commands(failed_commands, commands, now, results)
        IN  /\ failed_commands' = pass.queue
            /\ commands' = pass.store
            /\ alerts' = alerts \o pass.alerts
    /\ returned' = returned \o RetryCalls(failed_commands, now)
    /\ wpc' = "sleep"
    /\ ran' = Append(ran, Completed("retry"))
    /\ UNCHANGED <<optVars, bgVars, now, connection_failures, observed_at, fetched,
                   watchdog_running, monitor_running, request, cycles>>

NextWatchdogRetries ==
    \/ CheckConnectivity
    \/ MonitorCommands
    \/ CheckFreshness
    \/ RetryFailedCommandsRecorded
    \/ SleepElapsed
    \/ ClearCommand

SpecWatchdogRetries == InitWatchdog /\ [][NextWatchdogRetries]_vars

\* the retry dispatches made for the command of a zone
RetryDispatches(zone) == {i \in 1..Len(returned) : returned[i].zone = zone}

\* C27: every retry-queue entry has a retry_count in 0..3, and the watchdog
\* makes at most 3 retry dispatches for the one command pending for a zone,
\* over any number of ticks
C27_RetriesBounded ==
    /\ \A zone \in DOMAIN failed_commands :
          failed_commands[zone].retry_count \in 0..MAX_RETRIES
    /\ \A zone \in WatchedZones :
          Cardinality(RetryDispatches(zone)) <= MAX_RETRIES

\* the drain has changed the entry of zone or its commands/ document
DrainTouches(zone) ==
    \/ (zone \in DOMAIN failed_commands) # (zone \in DOMAIN failed_commands')
    \/ /\ zone \in DOMAIN failed_commands /\ zone \in DOMAIN failed_commands'
       /\ failed_commands'[zone] # failed_commands[zone]
    \/ (zone \in DOMAIN commands) # (zone \in DOMAIN commands')
    \/ /\ zone \in DOMAIN commands /\ zone \in DOMAIN commands'
       /\ commands'[zone] # commands[zone]

\* C28: a drain pass dispatches a retry for an entry only when more than
\* 300 s have passed since the entry's timestamp, makes at most one retry
\* dispatch per entry, and leaves alone the entries and the documents of the
\* zones that are not due
C28_RetryBackoff ==
    [][(wpc = "retry" /\ wpc' = "sleep") =>
        \A zone \in Zones :
            LET calls == { i \in (Len(returned) + 1)..Len(returned') :
                             returned'[i].zone = zone }
            IN  /\ Cardinality(calls) <= 1
                /\ (calls # {} \/ DrainTouches(zone)) =>
                      /\ zone \in DOMAIN failed_commands
                      /\ now - failed_commands[zone].timestamp > 300
                /\ \A i \in calls :
                      /\ returned'[i].command = failed_commands[zone].command
                      /\ failed_commands[zone].retry_count < 3]_vars

\* a drain pass has just made a retry dispatch that failed: the entry stays,
\* with one more retry counted from now
C28_Witness ==
    /\ wpc = "sleep"
    /\ returned # <<>>
    /\ \E zone \in DOMAIN failed_commands :
          /\ returned[Len(returned)].zone = zone
          /\ failed_commands[zone].retry_count = 2
          /\ failed_commands[zone].timestamp = now

---------------------------------------------------------------------------
(* The rate limiter of run_optimization at one tick *)

\* the seconds between the last recorded optimization and the tick: whole
\* periods of the optimize job, and one second less and more than each
ElapsedTimes ==
    { k * OPTIMIZE_PERIOD + d : k \in 0..MaxElapsedPeriods, d \in {-1, 0, 1} }
        \ {-1}

\* lines 119-122 of run_optimization: whether this tick returns at the
\* rate limiter
RunOptimizationLimiter ==
    /\ returned = <<>>
    /\ returned' = <<[skipped |-> RateLimited(last_optimization, now)]>>
    /\ UNCHANGED <<optVars, commands, wdVars, bgVars, watchdog_running,
                   monitor_running, request, cycles>>

\* a tick of the optimize job; the last optimization that succeeded was
\* recorded at StartTime, and none has succeeded since
InitRateLimiter ==
    /\ sensor_data = WatchdogSnapshot
    /\ pc = "idle"
    /\ reasoning = <<>>
    /\ mode_decisions = NoDecisions
    /\ decisions = NoDecisions
    /\ todo = <<>>
    /\ execution_results = <<>>
    /\ sent = <<>>
    /\ commands = <<>>
    /\ now \in { StartTime + e : e \in ElapsedTimes }
    /\ wpc = "stopped"
    /\ failed_commands = <<>>
    /\ connection_failures = 0
    /\ observed_at = <<>>
    /\ fetched = <<>>
    /\ ran = <<>>
    /\ alerts = <<>>
    /\ watchdog_running = FALSE
    /\ monitor_running = TRUE
    /\ jobs = <<>>
    /\ threads = <<IdleThread>>
    /\ last_optimization = <<StartTime>>
    /\ manual = <<>>
    /\ completed = <<>>
    /\ request = "none"
    /\ cycles = <<>>
    /\ returned = <<>>

SpecRateLimiter == InitRateLimiter /\ [][RunOptimizationLimiter]_vars

\* C30: the rate limiter does not skip a tick that comes 300 s or more after
\* the last recorded optimization, however long after, also more than one day
C30_NoSkipAfterWindow ==
    (returned # <<>> /\ now - last_optimization[1] >= 300) => ~returned[1].skipped

---------------------------------------------------------------------------
(* The decision engine invoked again on the same snapshot *)

\* _calculate_demand_score(zone, config) at datetime.now().hour, in tenths
calculate_demand_score(zone, current_hour) ==
    CASE ZoneType(zone) = "semi-critical" ->
            IF 18 <= current_hour \/ current_hour <= 6 THEN 10 ELSE 3
      [] ZoneType(zone) = "non-critical" ->
            IF 18 <= current_hour /\ current_hour <= 23 THEN 8 ELSE 2
      [] ZoneType(zone) = "deferrable" ->
            IF \/ 6 <= current_hour /\ current_hour <= 8
               \/ 18 <= current_hour /\ current_hour <= 20
            THEN 9 ELSE 1
      [] OTHER -> 5

\* normal mode that keeps a zone ON only while its demand score is high
normal_mode_by_demand(snapshot, sustain_hours, current_hour) ==
    [zone \in Zones |->
        IF ZoneType(zone) # "critical" /\ calculate_demand_score(zone, current_hour) < 5
        THEN "OFF"
        ELSE normal_mode(snapshot, sustain_hours)[zone]]

\* _normal_mode run at current_hour: demand_score is computed for every zone
\* that is not critical (line 151) and no decision reads it
normal_mode_at(snapshot, sustain_hours, current_hour) ==
    LET demand_score ==
            [zone \in Zones \ CriticalZones |->
                calculate_demand_score(zone, current_hour)]
    IN  normal_mode(snapshot, sustain_hours)

\* lines 48-66 of optimize_energy_allocation for a snapshot that can be
\* evaluated, with the prediction sustain_hours, run at current_hour
DecisionEngine(snapshot, sustain_hours, current_hour) ==
    LET m == SelectMode(snapshot)
    IN  apply_load_balancing(
            CASE m = "emergency" -> emergency_mode(snapshot)
              [] m = "critical" -> critical_mode(snapshot)
              [] m = "conservation" -> conservation_mode(snapshot)
              [] m = "normal" -> normal_mode_at(snapshot, sustain_hours, current_hour),
            snapshot)

\* predictions on both sides of the 4 h and 8 h tests of normal mode
Predictions ==
    {[inf |-> TRUE, centi |-> 0], [inf |-> FALSE, centi |-> 300],
     [inf |-> FALSE, centi |-> 600], [inf |-> FALSE, centi |-> 900]}

\* hours of the day on both sides of every test of _calculate_demand_score
Hours == {3, 7, 12, 19, 22}

\* one more invocation of the decision engine on the snapshot
Invoke ==
    /\ Len(returned) < MaxInvocations
    /\ \E sustain_hours \in Predictions, current_hour \in Hours :
        returned' = Append(returned,
            [sustain_hours |-> sustain_hours, current_hour |-> current_hour,
             decisions |-> DecisionEngine(sensor_data, sustain_hours, current_hour)])
    /\ UNCHANGED <<optVars, commands, wdVars, bgVars, watchdog_running,
                   monitor_running, request, cycles>>

InitRepeat ==
    /\ sensor_data \in CycleSnapshots
    /\ returned = <<>>
    /\ AllQuiet

SpecRepeat == InitRepeat /\ [][Invoke]_vars

\* C21: the decision engine is deterministic: two invocations on the same
\* snapshot with the same sustain-hours prediction give the same decisions,
\* whatever was invoked before and at whatever hour of the day they run
C21_Deterministic ==
    \A i, j \in 1..Len(returned) :
        returned[i].sustain_hours = returned[j].sustain_hours =>
            returned[i].decisions = returned[j].decisions

\* normal mode invoked twice with the same prediction, in the evening and
\* at noon, where the demand scores differ, with a non-critical zone ON
C21_Witness ==
    /\ Len(returned) = 2
    /\ returned[1].sustain_hours = returned[2].sustain_hours
    /\ returned[1].current_hour = 19
    /\ returned[2].current_hour = 12
    /\ SelectMode(sensor_data) = "normal"
    /\ returned[2].decisions["Zone3"] = "ON"

---------------------------------------------------------------------------
(* The energy-status read *)

\* C25: computing the optimization recommendations of the energy-status
\* read leaves the command store unchanged: the request sends no ON/OFF
\* command to any zone
C25_RecommendationsReadOnly ==
    request = "energy_status" => (sent = <<>> /\ commands = <<>>)

---------------------------------------------------------------------------
(* Optimize cycles running at the same time *)

\* The scheduler thread runs run_optimization while a request thread runs
\* force_optimization or the manual run_optimization (or two request threads
\* run these): each fetches the snapshot, decides and dispatches zone by
\* zone; nothing serialises them.  The store answers every fetch and every
\* write here, so that a command missing from the store is never the reason
\* for a mix

\* what the store can hold when a cycle fetches its snapshot
ConcurrentSnapshots ==
    { s \in CycleSnapshots : s["Zone1"].batteryPercentage \in {4, 20} }

\* a thread fetches the snapshot and computes its decision set (lines 23-69)
StartCycle ==
    /\ Len(cycles) < MaxCycles
    /\ \E snapshot \in ConcurrentSnapshots :
        /\ sensor_data' = snapshot
        /\ cycles' = Append(cycles, [decisions |-> CycleDecisions(snapshot),
                                     todo |-> sorted_zones])
    /\ UNCHANGED <<pc, reasoning, mode_decisions, decisions, todo, execution_results,
                   sent, commands, wdVars, bgVars, watchdog_running, monitor_running,
                   request, returned>>

\* one iteration of the loop of _execute_decisions in cycle c
DispatchNext(c) ==
    /\ cycles[c].todo # <<>>
    /\ LET zone == Head(cycles[c].todo)
       IN  commands' = StoreAfter(commands, zone, cycles[c].decisions[zone],
                                  set_command([i \in 1..RETRY_COUNT |-> "written"]), now)
    /\ cycles' = [cycles EXCEPT ![c].todo = Tail(@)]
    /\ UNCHANGED <<optVars, wdVars, bgVars, watchdog_running, monitor_running,
                   request, returned>>

NextConcurrent ==
    \/ StartCycle
    \/ \E c \in 1..Len(cycles) : DispatchNext(c)

InitConcurrent ==
    /\ sensor_data \in ConcurrentSnapshots
    /\ returned = <<>>
    /\ AllQuiet

SpecConcurrent == InitConcurrent /\ [][NextConcurrent]_vars

\* every cycle has been started and has dispatched all its commands
AllCyclesOver ==
    /\ Len(cycles) = MaxCycles
    /\ \A c \in 1..Len(cycles) : cycles[c].todo = <<>>

\* C29: when optimize cycles have run at the same time on different
\* snapshots, the commands finally held in the store all come from one and
\* the same decision set
C29_NoMixedCommands ==
    AllCyclesOver =>
        \E c \in 1..Len(cycles) :
            \A zone \in Zones : commands[zone].command = cycles[c].decisions[zone]

---------------------------------------------------------------------------
(* Stopping the watchdog loop and the scheduler loop *)

\* while running
LoopContinuesForever(running) == TRUE

\* "while self.running:", the test at the top of _watchdog_loop and of
\* _run_scheduler
LoopContinues(running) == running

\* WatchdogService.stop
StopWatchdog ==
    /\ watchdog_running
    /\ watchdog_running' = FALSE
    /\ UNCHANGED <<optVars, commands, wdVars, bgVars, monitor_running, request,
                   cycles, returned>>

\* BackgroundMonitor.stop
StopBackground ==
    /\ monitor_running
    /\ monitor_running' = FALSE
    /\ UNCHANGED <<optVars, commands, wdVars, bgVars, watchdog_running, request,
                   cycles, returned>>

\* time.sleep(30) at the end of an iteration of _watchdog_loop, in the frame
\* of the clock, and the test of the next one: the loop goes on or ends
SleepAndTest ==
    /\ wpc = "sleep"
    /\ failed_commands' =
          [z \in DOMAIN failed_commands |->
              [failed_commands[z] EXCEPT !.timestamp = Elapsed(@)]]
    /\ commands' =
          [z \in DOMAIN commands |-> [commands[z] EXCEPT !.lastUpdated = Elapsed(@)]]
    /\ observed_at' =
          [z \in DOMAIN observed_at |-> [observed_at[z] EXCEPT !.seconds = Elapsed(@)]]
    /\ IF LoopContinues(watchdog_running)
       THEN /\ wpc' = "connectivity"
            /\ alerts' = <<>>
            /\ ran' = <<>>
       ELSE /\ wpc' = "exited"
            /\ UNCHANGED <<alerts, ran>>
    /\ UNCHANGED <<reqVars, optVars, bgVars, now, connection_failures, fetched>>

\* the steps of the watchdog thread
WatchdogLoop ==
    \/ CheckConnectivity
    \/ MonitorCommands
    \/ CheckFreshness
    \/ RetryFailedCommands
    \/ SleepAndTest

\* the jobs run_pending can find due, in the order it runs them
PendingChoices ==
    { SubSeq(Tasks, 1, n) : n \in 0..Len(Tasks) }

\* a thread of _run_scheduler at the test of its loop, before any iteration
ThreadAtTest == [at |-> "test", due |-> <<>>, done |-> 0]

\* the test at the top of _run_scheduler: the thread calls run_pending, which
\* finds some of the jobs due, or leaves the loop.  Which jobs are due is
\* left open, as the time between two iterations is
TestRunning(th) ==
    /\ threads[th].at = "test"
    /\ IF LoopContinues(monitor_running)
       THEN \E due \in PendingChoices :
               threads' = [threads EXCEPT
                              ![th] = [at |-> "run_pending", due |-> due, done |-> 0]]
       ELSE threads' = [threads EXCEPT ![th].at = "exited"]
    /\ UNCHANGED <<reqVars, optVars, commands, wdVars, jobs, last_optimization,
                   manual, completed>>

\* run_pending runs the next of the jobs it found due
RunPendingJob(th) ==
    /\ threads[th].at = "run_pending"
    /\ threads[th].done < Len(threads[th].due)
    /\ threads' = [threads EXCEPT ![th].done = @ + 1]
    /\ UNCHANGED <<reqVars, optVars, commands, wdVars, jobs, last_optimization,
                   manual, completed>>

\* run_pending has returned: time.sleep(1), then the test again
SleepOneSecond(th) ==
    /\ threads[th].at = "run_pending"
    /\ threads[th].done = Len(threads[th].due)
    /\ threads' = [threads EXCEPT ![th].at = "test"]
    /\ UNCHANGED <<reqVars, optVars, commands, wdVars, jobs, last_optimization,
                   manual, completed>>

\* the steps of scheduler thread th
SchedulerLoop(th) ==
    /\ th \in 1..Len(threads)
    /\ (TestRunning(th) \/ RunPendingJob(th) \/ SleepOneSecond(th))

\* both services started, with one scheduler thread per call of
\* start_background_tasks; no command is pending and the sensors/ entries
\* carry no timestamp
InitStop ==
    /\ sensor_data = WatchdogSnapshot
    /\ pc = "idle"
    /\ reasoning = <<>>
    /\ mode_decisions = NoDecisions
    /\ decisions = NoDecisions
    /\ todo = <<>>
    /\ execution_results = <<>>
    /\ sent = <<>>
    /\ commands = <<>>
    /\ now = StartTime
    /\ wpc = "connectivity"
    /\ failed_commands = <<>>
    /\ connection_failures = 0
    /\ observed_at = <<>>
    /\ fetched = <<>>
    /\ ran = <<>>
    /\ alerts = <<>>
    /\ watchdog_running = TRUE
    /\ monitor_running = TRUE
    /\ \E n \in 1..Len(Starters) :
          /\ threads = [th \in 1..n |-> ThreadAtTest]
          /\ jobs = [i \in 1..(n * Len(Tasks)) |->
                        [task |-> Tasks[((i - 1) % Len(Tasks)) + 1],
                         next_run |-> now + Period(Tasks[((i - 1) % Len(Tasks)) + 1])]]
    /\ last_optimization = <<>>
    /\ manual = <<>>
    /\ completed = <<>>
    /\ NoRequest

NextStop ==
    \/ WatchdogLoop
    \/ \E th \in 1..Len(threads) : TestRunning(th)
    \/ \E th \in 1..Len(threads) : RunPendingJob(th)
    \/ \E th \in 1..Len(threads) : SleepOneSecond(th)
    \/ StopWatchdog
    \/ StopBackground

\* the threads keep being scheduled; nobody has to call stop
SpecStop ==
    /\ InitStop
    /\ [][NextStop]_vars
    /\ WF_vars(WatchdogLoop)
    /\ \A th \in 1..Len(Starters) : WF_vars(SchedulerLoop(th))

\* the watchdog loop has ended after a whole iteration
WatchdogExitedCleanly ==
    /\ wpc = "exited"
    /\ [i \in 1..Len(ran) |-> ran[i].check] = Checks

\* scheduler thread th has ended with every job of its last run_pending run
ThreadExitedCleanly(th) ==
    /\ threads[th].at = "exited"
    /\ threads[th].done = Len(threads[th].due)

\* C23: graceful stop: after stop() is called on the watchdog or on the
\* scheduler, the loop finishes the iteration in progress, starts no further
\* iteration, and eventually exits
C23_GracefulStop ==
    /\ [](wpc = "exited" => (~watchdog_running /\ WatchdogExitedCleanly))
    /\ [](\A th \in 1..Len(threads) :
             threads[th].at = "exited" => (~monitor_running /\ ThreadExitedCleanly(th)))
    /\ [][/\ (~watchdog_running /\ wpc \in {"sleep", "exited"}) => wpc' # "connectivity"
          /\ \A th \in 1..Len(threads) :
                (~monitor_running /\ threads[th].at \in {"test", "exited"}) =>
                    threads'[th].at # "run_pending"]_vars
    /\ (~watchdog_running) ~> WatchdogExitedCleanly
    /\ (~monitor_running) ~> (\A th \in 1..Len(threads) : ThreadExitedCleanly(th))

\* both loops have ended: the watchdog after its four checks, and two
\* scheduler threads, one of them after running all three jobs
C23_Witness ==
    /\ WatchdogExitedCleanly
    /\ Len(threads) = 2
    /\ \A th \in 1..Len(threads) : ThreadExitedCleanly(th)
    /\ threads[1].done = 3

=============================================================================
